---------------------------- MODULE Spec2Model ----------------------------
(***************************************************************************)
(* Model of the FlightRadar24 CLI tester: fetch_aircraft_data and main of  *)
(* fr24_tester.py, and fetch_aircraft_data/main of fr24_tester_backup.py   *)
(* (the same function without the api_key argument).                       *)
(*                                                                         *)
(* One run is one process invocation (entry = "main") or one direct call   *)
(* of fetch_aircraft_data (entry = "call").  The remote service is the     *)
(* environment: it answers the single GET with a transport failure, with a *)
(* body that is not JSON, or with a decoded JSON value.                    *)
(***************************************************************************)
EXTENDS Integers, Sequences, FiniteSets, TLC

(***************************************************************************)
(* Bounds of the model.                                                    *)
(***************************************************************************)
MaxLen == 3       \* longest enumerated 'aircraft' list
MaxLimit == 2     \* largest limit argument
NegLimit == 1     \* limits range over -NegLimit .. MaxLimit

(***************************************************************************)
(* Python values.  None is a value distinct from every str; "" is the      *)
(* empty str.  Truthy is Python's truth test of an Optional[str].          *)
(***************************************************************************)
NoneVal == "<None>"

Truthy(v) == v # NoneVal /\ v # ""

(***************************************************************************)
(* Literals of the source.                                                 *)
(***************************************************************************)
PremiumUrl == "https://api.flightradar24.com/common/v1/search.json"

PublicUrl == "https://data-live.flightradar24.com/zones/fcgi/feed.js"

DefaultBounds == "90,-180,-90,180"

Timeout == 30

FlagNames == {"faa", "mlat", "flarm", "adsb", "gnd", "air", "vehicles", "estimated", "stats"}

RequestFailedText == "API request failed: "

ParseFailedText == "Failed to parse JSON response: "

MissingKeyText == "Error: FR24_API_KEY environment variable not set"

MainModule == "fr24_tester"

BackupModule == "fr24_tester_backup"

(***************************************************************************)
(* Decoded JSON values.  An element of a list is an object (of which only  *)
(* the two inspected fields are modelled; a missing field and a null field *)
(* both read as None through dict.get) or a value that is not an object.   *)
(***************************************************************************)
Rec(t, r) == [kind |-> "object", aircraft_type |-> t, registration |-> r]

NumberElem == [kind |-> "number", aircraft_type |-> NoneVal, registration |-> NoneVal]

StringElem == [kind |-> "string", aircraft_type |-> NoneVal, registration |-> NoneVal]

Elements == {Rec("C17", "A"), Rec("C17", "C"), Rec("B2", "A"), Rec(NoneVal, NoneVal), NumberElem}

Records == {e \in Elements : e.kind = "object"}

SeqsUpTo(S, n) == UNION {[1..k -> S] : k \in 0..n}

\* a JSON value found under the 'aircraft' key; items is what iterating it yields
Val(k, s) == [kind |-> k, items |-> s]

NoVal == Val("absent", <<>>)

\* the decoded body: contains is the value of ('aircraft' in data) where defined
Body(k, c, v) == [kind |-> k, contains |-> c, value |-> v]

ExampleList == <<Rec("C17", "A"), Rec("B2", "B"), Rec("C17", "C"), Rec("C17", "D")>>

ListBodies == {Body("object", TRUE, Val("array", s)) : s \in SeqsUpTo(Elements, MaxLen) \cup {ExampleList}}

OddBodies ==
    { Body("object", FALSE, NoVal),                               \* {}
      Body("object", TRUE, Val("null", <<>>)),                    \* {"aircraft": null}
      Body("object", TRUE, Val("number", <<>>)),                  \* {"aircraft": 5}
      Body("object", TRUE, Val("string", <<StringElem>>)),        \* {"aircraft": "x"}
      Body("object", TRUE, Val("object", <<StringElem>>)),        \* {"aircraft": {"k": 1}}
      Body("array", FALSE, NoVal),                                \* []
      Body("array", TRUE, NoVal),                                 \* ["aircraft"]
      Body("string", FALSE, NoVal),                               \* "x"
      Body("string", TRUE, NoVal),                                \* "aircraft"
      Body("number", FALSE, NoVal),                               \* 5
      Body("null", FALSE, NoVal) }                                \* null

Bodies == ListBodies \cup OddBodies

(***************************************************************************)
(* Python operations on decoded values; "TypeError"/"AttributeError" is    *)
(* the exception the operation raises, "none" that it raises nothing.      *)
(***************************************************************************)
\* 'aircraft' in data
InRaises(data) == IF data.kind \in {"object", "array", "string"} THEN "none" ELSE "TypeError"

\* data['aircraft']
GetItemRaises(data) == IF data.kind = "object" THEN "none" ELSE "TypeError"

\* for aircraft in data['aircraft']
IterRaises(v) == IF v.kind \in {"array", "object", "string"} THEN "none" ELSE "TypeError"

\* aircraft.get(...)
GetRaises(a) == IF a.kind = "object" THEN "none" ELSE "AttributeError"


(***************************************************************************)
(* Exceptions: a name and the classes the exception is an instance of.     *)
(* requests.get / raise_for_status raise subclasses of RequestException.   *)
(* response.json() on a body that is not JSON raises, depending on the     *)
(* installed requests, either requests.exceptions.JSONDecodeError (2.27    *)
(* and later: a subclass of both InvalidJSONError, hence RequestException, *)
(* and json.JSONDecodeError) or json.JSONDecodeError itself (earlier).     *)
(***************************************************************************)
Exc(n, cs) == [name |-> n, classes |-> cs]

NoExc == Exc("none", {})

TransportExcs ==
    { Exc("ConnectionError", {"ConnectionError", "RequestException"}),
      Exc("Timeout", {"Timeout", "RequestException"}),
      Exc("HTTPError", {"HTTPError", "RequestException"}) }

JsonExcs ==
    { Exc("requests.exceptions.JSONDecodeError", {"InvalidJSONError", "RequestException", "JSONDecodeError", "ValueError"}),
      Exc("json.JSONDecodeError", {"JSONDecodeError", "ValueError"}) }

\* the except clauses of fetch_aircraft_data, tried in source order
Handler(e) ==
    IF "RequestException" \in e.classes THEN "request"
    ELSE IF "JSONDecodeError" \in e.classes THEN "decode"
    ELSE "propagate"

(***************************************************************************)
(* Request building.                                                       *)
(***************************************************************************)
BaseUrl(api_key) == IF Truthy(api_key) THEN PremiumUrl ELSE PublicUrl

\* a header is a name and its value, the value as the pieces it is formatted from
Header(n, v) == [name |-> n, value |-> v]

Bearer(api_key) == <<"Bearer ", api_key>>

Headers(api_key) ==
    IF Truthy(api_key)
    THEN {Header("Authorization", Bearer(api_key)), Header("Content-Type", <<"application/json">>)}
    ELSE {}

\* variant: the default is forgotten
BoundsParam_NoDefault(bounds) == bounds

BoundsParam(bounds) == IF Truthy(bounds) THEN bounds ELSE DefaultBounds

Params(bounds) == [bounds |-> BoundsParam(bounds), flags |-> [f \in FlagNames |-> "1"]]

\* variant: tests "api_key is not None" where the endpoint choice tests truth
ApiType_KeyPassed(api_key) == IF api_key # NoneVal THEN "premium" ELSE "public"

ApiType(api_key) == IF Truthy(api_key) THEN "premium" ELSE "public"

(***************************************************************************)
(* The filter loop of fetch_aircraft_data.                                 *)
(***************************************************************************)
\* the element is skipped by the type filter (first continue)
TypeSkips(a, aircraft_type) == Truthy(aircraft_type) /\ a.aircraft_type # aircraft_type

\* variant: the registration filter is never applied
RegSkips_Ignored(a, registration) == FALSE

\* the element is skipped by the registration filter (second continue)
RegSkips(a, registration) == Truthy(registration) /\ a.registration # registration

\* the break test after an append
ReachedLimit(aircraft_list, limit) == Len(aircraft_list) >= limit

LoopState(l, n, x) == [aircraft_list |-> l, inspected |-> n, raised |-> x]

RECURSIVE FilterLoop(_, _, _, _, _, _)
\* the for loop from element i on; inspected counts the elements the loop
\* variable was bound to
FilterLoop(items, i, kept, aircraft_type, registration, limit) ==
    IF i > Len(items) THEN LoopState(kept, i - 1, "none")
    ELSE LET a == items[i] IN
         IF Truthy(aircraft_type) /\ GetRaises(a) # "none" THEN LoopState(kept, i, GetRaises(a))
         ELSE IF TypeSkips(a, aircraft_type)
              THEN FilterLoop(items, i + 1, kept, aircraft_type, registration, limit)
         ELSE IF Truthy(registration) /\ GetRaises(a) # "none" THEN LoopState(kept, i, GetRaises(a))
         ELSE IF RegSkips(a, registration)
              THEN FilterLoop(items, i + 1, kept, aircraft_type, registration, limit)
         ELSE LET kept2 == Append(kept, a) IN
              IF ReachedLimit(kept2, limit) THEN LoopState(kept2, i, "none")
              ELSE FilterLoop(items, i + 1, kept2, aircraft_type, registration, limit)

\* lines "aircraft_list = []" to the end of the loop, on a decoded body
Extract(data, aircraft_type, registration, limit) ==
    IF InRaises(data) # "none" THEN LoopState(<<>>, 0, InRaises(data))
    ELSE IF ~data.contains THEN LoopState(<<>>, 0, "none")
    ELSE IF GetItemRaises(data) # "none" THEN LoopState(<<>>, 0, GetItemRaises(data))
    ELSE IF IterRaises(data.value) # "none" THEN LoopState(<<>>, 0, IterRaises(data.value))
    ELSE FilterLoop(data.value.items, 1, <<>>, aircraft_type, registration, limit)

(***************************************************************************)
(* Result envelopes.  The backup module's envelopes carry no api_type.     *)
(***************************************************************************)
NoResult == [status |-> "none"]

SuccessEnvelope(m, aircraft_list, data, api_key) ==
    IF m = MainModule
    THEN [status |-> "success", count |-> Len(aircraft_list), aircraft |-> aircraft_list,
          raw_response |-> data, api_type |-> ApiType(api_key)]
    ELSE [status |-> "success", count |-> Len(aircraft_list), aircraft |-> aircraft_list,
          raw_response |-> data]

Message(text, e) == <<text, e.name>>

\* variant: the error envelope also carries an empty result
ErrorEnvelope_WithList(m, text, e, api_key) ==
    [status |-> "error", message |-> Message(text, e), count |-> 0, aircraft |-> <<>>,
     api_type |-> ApiType(api_key)]

ErrorEnvelope(m, text, e, api_key) ==
    IF m = MainModule
    THEN [status |-> "error", message |-> Message(text, e), api_type |-> ApiType(api_key)]
    ELSE [status |-> "error", message |-> Message(text, e)]

\* what the call returns when exception e is raised inside the try block
Caught(m, e, api_key) ==
    IF Handler(e) = "request" THEN ErrorEnvelope(m, RequestFailedText, e, api_key)
    ELSE IF Handler(e) = "decode" THEN ErrorEnvelope(m, ParseFailedText, e, api_key)
    ELSE NoResult


(***************************************************************************)
(* State.                                                                  *)
(***************************************************************************)
VARIABLES
    module,      \* which file runs: MainModule or BackupModule
    entry,       \* "main": the command line; "call": fetch_aircraft_data called directly
    pc,          \* "main", "call", "awaiting", "returned", "raised", "done"
    args,        \* aircraft_type, registration, bounds, limit, use_env_key
    environ,     \* the value of FR24_API_KEY in the process environment
    api_key,     \* main's api_key local / the api_key argument
    request,     \* the requests.get calls made, in order
    envReads,    \* number of os.getenv('FR24_API_KEY') calls
    fetchCalls,  \* number of fetch_aircraft_data invocations
    reply,       \* "none", "failure", "notjson", "json": what the service answered
    data,        \* the decoded body (reply = "json")
    inspected,   \* number of list elements the filter loop looked at
    result,      \* the envelope fetch_aircraft_data returned
    raised,      \* the exception that left fetch_aircraft_data, "none" if none
    stdout       \* what main printed

vars == <<module, entry, pc, args, environ, api_key, request, envReads, fetchCalls,
          reply, data, inspected, result, raised, stdout>>

TypeArgs == {NoneVal, "", "C17"}

RegArgs == {NoneVal, "", "A"}

BoundsArgs == {NoneVal, "", "30,-120,40,-110"}

KeyValues == {NoneVal, "", "KEY"}

Limits == (0 - NegLimit) .. MaxLimit

Args(t, r, b, l, u) == [aircraft_type |-> t, registration |-> r, bounds |-> b, limit |-> l, use_env_key |-> u]

NoData == Body("none", FALSE, NoVal)

Init ==
    /\ module \in {MainModule, BackupModule}
    /\ entry \in {"main", "call"}
    /\ pc = entry
    /\ \E t \in TypeArgs, r \in RegArgs, b \in BoundsArgs, l \in Limits, u \in BOOLEAN :
          /\ args = Args(t, r, b, l, u)
          /\ (u => module = MainModule /\ entry = "main")
    /\ environ \in KeyValues
    /\ (environ # NoneVal => module = MainModule /\ entry = "main")
    /\ api_key \in KeyValues
    /\ (api_key # NoneVal => module = MainModule /\ entry = "call")
    /\ request = <<>>
    /\ envReads = 0
    /\ fetchCalls = 0
    /\ reply = "none"
    /\ data = NoData
    /\ inspected = 0
    /\ result = NoResult
    /\ raised = "none"
    /\ stdout = <<>>

Printed(text, envelope) == [text |-> text, value |-> envelope]

(***************************************************************************)
(* main of fr24_tester.py, up to the call, and main of the backup module.  *)
(***************************************************************************)
\* variant: tests "api_key is None" only, so an empty key goes on to the call
KeyUsable_NotNone(key) == key # NoneVal

\* get_api_key_from_env() returned a key that passes "if not api_key"
KeyUsable(key) == Truthy(key)

\* --use_env_key not given: api_key stays None and the environment is not read
MainNoKey ==
    /\ pc = "main" /\ module = MainModule /\ ~args.use_env_key
    /\ api_key' = NoneVal
    /\ pc' = "call"
    /\ UNCHANGED <<module, entry, args, environ, request, envReads, fetchCalls, reply,
                   data, inspected, result, raised, stdout>>

\* --use_env_key given and the variable holds a key
MainEnvKey ==
    /\ pc = "main" /\ module = MainModule /\ args.use_env_key
    /\ KeyUsable(environ)
    /\ envReads' = envReads + 1
    /\ api_key' = environ
    /\ pc' = "call"
    /\ UNCHANGED <<module, entry, args, environ, request, fetchCalls, reply, data,
                   inspected, result, raised, stdout>>

\* --use_env_key given and the variable is unset or empty: print and return
MainMissingKey ==
    /\ pc = "main" /\ module = MainModule /\ args.use_env_key
    /\ ~KeyUsable(environ)
    /\ envReads' = envReads + 1
    /\ api_key' = environ
    /\ stdout' = Append(stdout, Printed(MissingKeyText, NoResult))
    /\ pc' = "done"
    /\ UNCHANGED <<module, entry, args, environ, request, fetchCalls, reply, data,
                   inspected, result, raised>>

\* the backup module's main has no credential step
BackupMain ==
    /\ pc = "main" /\ module = BackupModule
    /\ pc' = "call"
    /\ UNCHANGED <<module, entry, args, environ, api_key, request, envReads, fetchCalls,
                   reply, data, inspected, result, raised, stdout>>

(***************************************************************************)
(* fetch_aircraft_data.                                                    *)
(***************************************************************************)
Request(u, h, p) == [method |-> "GET", url |-> u, headers |-> h, params |-> p, timeout |-> Timeout]

\* entry of the function up to requests.get being issued
SendRequest ==
    /\ pc = "call"
    /\ fetchCalls' = fetchCalls + 1
    /\ request' = Append(request, Request(BaseUrl(api_key), Headers(api_key), Params(args.bounds)))
    /\ pc' = "awaiting"
    /\ UNCHANGED <<module, entry, args, environ, api_key, envReads, reply, data,
                   inspected, result, raised, stdout>>

\* the function leaves the try statement with exception e raised in its body
Leave(e) ==
    /\ result' = Caught(module, e, api_key)
    /\ raised' = IF Handler(e) = "propagate" THEN e.name ELSE "none"
    /\ pc' = IF Handler(e) = "propagate" THEN "raised" ELSE "returned"

\* requests.get or raise_for_status raises: connection error, timeout, non-2xx
TransportFailure ==
    /\ pc = "awaiting"
    /\ \E e \in TransportExcs : Leave(e)
    /\ reply' = "failure"
    /\ UNCHANGED <<module, entry, args, environ, api_key, request, envReads, fetchCalls,
                   data, inspected, stdout>>

\* 2xx, and response.json() raises on a body that is not JSON
DecodeFailure ==
    /\ pc = "awaiting"
    /\ \E e \in JsonExcs : Leave(e)
    /\ reply' = "notjson"
    /\ UNCHANGED <<module, entry, args, environ, api_key, request, envReads, fetchCalls,
                   data, inspected, stdout>>

\* 2xx and a JSON body: decode, filter, build the envelope
DecodeAndFilter ==
    /\ pc = "awaiting"
    /\ \E d \in Bodies :
          LET x == Extract(d, args.aircraft_type, args.registration, args.limit) IN
          /\ data' = d
          /\ inspected' = x.inspected
          /\ IF x.raised = "none"
             THEN /\ result' = SuccessEnvelope(module, x.aircraft_list, d, api_key)
                  /\ raised' = "none"
                  /\ pc' = "returned"
             ELSE Leave(Exc(x.raised, {x.raised}))
    /\ reply' = "json"
    /\ UNCHANGED <<module, entry, args, environ, api_key, request, envReads, fetchCalls, stdout>>

\* print(json.dumps(result, indent=2)) in either main
MainPrint ==
    /\ pc = "returned" /\ entry = "main"
    /\ stdout' = Append(stdout, Printed("json.dumps", result))
    /\ pc' = "done"
    /\ UNCHANGED <<module, entry, args, environ, api_key, request, envReads, fetchCalls,
                   reply, data, inspected, result, raised>>

Next ==
    \/ MainNoKey
    \/ MainEnvKey
    \/ MainMissingKey
    \/ BackupMain
    \/ SendRequest
    \/ TransportFailure
    \/ DecodeFailure
    \/ DecodeAndFilter
    \/ MainPrint

Spec == Init /\ [][Next]_vars


(***************************************************************************)
(* Vocabulary of the properties.                                           *)
(***************************************************************************)
Returned == pc \in {"returned", "done"} /\ result.status \in {"success", "error"}

Succeeded == Returned /\ result.status = "success"

\* the decoded body is an object whose 'aircraft' entry is a list
ListInput == reply = "json" /\ data.kind = "object" /\ data.contains /\ data.value.kind = "array"

\* ... and every element of the list is a record
RecordListInput == ListInput /\ \A i \in 1..Len(data.value.items) : data.value.items[i].kind = "object"

RECURSIVE IsSubseq(_, _)
\* s can be obtained from t by deleting elements
IsSubseq(s, t) ==
    IF s = <<>> THEN TRUE
    ELSE IF t = <<>> THEN FALSE
    ELSE IF Head(s) = Head(t) THEN IsSubseq(Tail(s), Tail(t))
    ELSE IsSubseq(s, Tail(t))

\* the first n elements of s (none when n <= 0, all when n > Len(s))
FirstN(s, n) == [i \in 1..(IF n <= 0 THEN 0 ELSE IF n > Len(s) THEN Len(s) ELSE n) |-> s[i]]

Keeps(a) == ~TypeSkips(a, args.aircraft_type) /\ ~RegSkips(a, args.registration)

\* the records of s the filters keep, in order
Matching(s) == SelectSeq(s, Keeps)

\* index in s of the n-th kept record, Len(s) when fewer than n are kept
CutPos(s, n) ==
    LET hit == {i \in 1..Len(s) : Keeps(s[i]) /\ Len(Matching(SubSeq(s, 1, i))) >= n}
    IN IF hit = {} THEN Len(s) ELSE CHOOSE i \in hit : \A j \in hit : i <= j

(***************************************************************************)
(* C1.  As stated: on a list of records, every returned record equals      *)
(* every filter value that was passed (anything but None), and the         *)
(* returned list is a subsequence of the input list.                       *)
(***************************************************************************)
C1_AsStated ==
    (RecordListInput /\ Succeeded) =>
        /\ \A i \in 1..Len(result.aircraft) :
              /\ (args.aircraft_type # NoneVal => result.aircraft[i].aircraft_type = args.aircraft_type)
              /\ (args.registration # NoneVal => result.aircraft[i].registration = args.registration)
        /\ IsSubseq(result.aircraft, data.value.items)

(***************************************************************************)
(* C1, amended.  On a list of records, every returned record equals every  *)
(* non-empty filter value that was passed (an empty string filters         *)
(* nothing), and the returned list is a subsequence of the input list in   *)
(* the original order.                                                     *)
(***************************************************************************)
C1_FilterMatch ==
    (RecordListInput /\ Succeeded) =>
        /\ \A i \in 1..Len(result.aircraft) :
              /\ (Truthy(args.aircraft_type) => result.aircraft[i].aircraft_type = args.aircraft_type)
              /\ (Truthy(args.registration) => result.aircraft[i].registration = args.registration)
        /\ IsSubseq(result.aircraft, data.value.items)

\* both filters given, a record kept and a record dropped
C1_Witness ==
    /\ RecordListInput /\ Succeeded
    /\ Truthy(args.aircraft_type) /\ Truthy(args.registration)
    /\ Len(result.aircraft) >= 1
    /\ Len(result.aircraft) < Len(data.value.items)

(***************************************************************************)
(* C2.  For every list, filters and limit (0 and negative limits           *)
(* included) the returned list is no longer than the limit, and count is   *)
(* its length.                                                             *)
(***************************************************************************)
C2_AtMostLimit ==
    Succeeded => (Len(result.aircraft) <= args.limit /\ result.count = Len(result.aircraft))

(***************************************************************************)
(* C3.  The returned list is exactly the first `limit` matching records,   *)
(* no record after the one that reached the limit is inspected, and the    *)
(* example of the specification gives [{C17,A},{C17,C}] with count 2.      *)
(***************************************************************************)
C3_EarlyExit ==
    (RecordListInput /\ Succeeded) =>
        /\ result.aircraft = FirstN(Matching(data.value.items), args.limit)
        /\ inspected <= CutPos(data.value.items, args.limit)
        /\ (data.value.items = ExampleList /\ args.aircraft_type = "C17"
              /\ args.registration = NoneVal /\ args.limit = 2)
           => (result.aircraft = <<Rec("C17", "A"), Rec("C17", "C")>> /\ result.count = 2)

(***************************************************************************)
(* C4.  With neither filter, the returned list is the first `limit`        *)
(* elements of the input list, for every list and every limit.             *)
(***************************************************************************)
C4_NoFilterPrefix ==
    (ListInput /\ Succeeded /\ args.aircraft_type = NoneVal /\ args.registration = NoneVal)
        => result.aircraft = FirstN(data.value.items, args.limit)

(***************************************************************************)
(* C5.  A 2xx response whose body is not JSON yields an error envelope     *)
(* with the parse-failure message, not the request-failure message.        *)
(***************************************************************************)
C5_ParseFailureMessage ==
    reply = "notjson" =>
        /\ Returned
        /\ result.status = "error"
        /\ result.message[1] = ParseFailedText

C7_MissingKeyAborts ==
    /\ (entry = "main" /\ args.use_env_key /\ ~Truthy(environ) /\ pc # "main") =>
          /\ pc = "done"
          /\ stdout = <<Printed(MissingKeyText, NoResult)>>
          /\ fetchCalls = 0
          /\ request = <<>>
    /\ (envReads > 0 => args.use_env_key)

C7_Witness == entry = "main" /\ args.use_env_key /\ environ = "" /\ pc = "done" /\ envReads = 1

(***************************************************************************)
(* C8.  As stated: the premium endpoint with the bearer header is          *)
(* requested if and only if a credential is passed (anything but None),    *)
(* otherwise the public endpoint with no header; api_type is 'premium'     *)
(* exactly when the premium endpoint was requested.                        *)
(***************************************************************************)
C8_AsStated ==
    (module = MainModule /\ request # <<>>) =>
        /\ (api_key # NoneVal) <=>
              (request[1].url = PremiumUrl
                 /\ Header("Authorization", <<"Bearer ", api_key>>) \in request[1].headers)
        /\ (api_key = NoneVal) <=> (request[1].url = PublicUrl /\ request[1].headers = {})
        /\ Returned => (result.api_type = "premium" <=> request[1].url = PremiumUrl)
        /\ Returned => (result.api_type = "public" <=> request[1].url # PremiumUrl)

(***************************************************************************)
(* C8, amended.  The premium endpoint with the bearer header is requested  *)
(* if and only if a non-empty credential is passed; with None or an empty  *)
(* string the public endpoint is requested with no header.  On every       *)
(* return path api_type is 'premium' exactly when the premium endpoint was *)
(* requested and 'public' otherwise.                                       *)
(***************************************************************************)
C8_Endpoint ==
    (module = MainModule /\ request # <<>>) =>
        /\ Truthy(api_key) <=>
              (request[1].url = PremiumUrl
                 /\ Header("Authorization", <<"Bearer ", api_key>>) \in request[1].headers)
        /\ ~Truthy(api_key) <=> (request[1].url = PublicUrl /\ request[1].headers = {})
        /\ Returned => (result.api_type = "premium" <=> request[1].url = PremiumUrl)
        /\ Returned => (result.api_type = "public" <=> request[1].url # PremiumUrl)

C8_Witness ==
    /\ module = MainModule /\ api_key = "KEY" /\ Succeeded
    /\ request[1].url = PremiumUrl /\ result.api_type = "premium"

(***************************************************************************)
(* C9.  As stated: the bounds parameter is the bounds argument whenever    *)
(* one is passed (anything but None) and the default when it is omitted;   *)
(* the nine flags are always sent as '1'.                                  *)
(***************************************************************************)
C9_AsStated ==
    request # <<>> =>
        /\ (args.bounds # NoneVal => request[1].params.bounds = args.bounds)
        /\ (args.bounds = NoneVal => request[1].params.bounds = "90,-180,-90,180")
        /\ DOMAIN request[1].params.flags = FlagNames /\ Cardinality(FlagNames) = 9
        /\ \A f \in FlagNames : request[1].params.flags[f] = "1"

(***************************************************************************)
(* C9, amended.  The bounds parameter is the bounds argument whenever a    *)
(* non-empty one is passed, and the default '90,-180,-90,180' when it is   *)
(* omitted or empty; the nine flags are always sent as '1'.                *)
(***************************************************************************)
C9_BoundsParam ==
    request # <<>> =>
        /\ (Truthy(args.bounds) => request[1].params.bounds = args.bounds)
        /\ (~Truthy(args.bounds) => request[1].params.bounds = "90,-180,-90,180")
        /\ DOMAIN request[1].params.flags = FlagNames /\ Cardinality(FlagNames) = 9
        /\ \A f \in FlagNames : request[1].params.flags[f] = "1"

C9_Witness ==
    /\ request # <<>> /\ args.bounds = "30,-120,40,-110"
    /\ request[1].params.bounds = "30,-120,40,-110"

(***************************************************************************)
(* C10.  Every invocation issues exactly one GET and returns normally with *)
(* a 'success' or 'error' envelope, whatever the transport outcome and     *)
(* whatever the shape of the decoded body: no exception leaves the call.   *)
(***************************************************************************)
C10_NeverRaises ==
    /\ Len(request) = fetchCalls /\ fetchCalls <= 1
    /\ raised = "none"
    /\ (pc \in {"returned", "raised", "done"} /\ fetchCalls = 1) => Returned

=============================================================================
